---- MODULE Spec2Model ----
(***************************************************************************)
(* A model of edillmann/go-zfs: the command execution engine               *)
(* (command.Run, command.LocalPrepare, command.StartCommand,               *)
(* prepareCommand, ZfsH.dialSSH, ZfsH.Close), the row tokenizer at the     *)
(* end of command.Run, the tabular record mappers, the parser of the diff  *)
(* stream (parseInodeChanges, unescapeFilepath, parseReferenceCount) and   *)
(* the argument lists of SendSnapshot, Clone, Rollback and Destroy.        *)
(*                                                                         *)
(* A Go string is a sequence of atoms.  An atom is one character (the      *)
(* whitespace characters, "|", "=", letters) or a word that holds neither  *)
(* whitespace nor "|" (a program name, an option).  Concatenation is \o.   *)
(***************************************************************************)
EXTENDS Integers, Sequences, FiniteSets, TLC

(***************************************************************************)
(* Bounds of the model.                                                    *)
(***************************************************************************)
MaxTextLen == 4      \* longest free-form captured text, in characters
MaxLines == 3        \* most newline-terminated lines of a tabular text
NumCallers == 2      \* goroutines that share the one handle
MaxCalls == 2        \* API calls made on the handle, over all callers

VARIABLES
    Local,         \* ZfsH.Local
    client,        \* ZfsH.client: Nil, or the index in conns of the connection
    conns,         \* the connections ssh.Dial has established: "open" | "closed"
    dialCalls,     \* calls of ZfsH.dialSSH so far
    openSessions,  \* sessions opened (NewSession succeeded) and not closed
    calls,         \* API calls so far; the source of uuid.New()
    serial,        \* the calls never overlap: the first caller makes them all
    run,           \* per caller: the locals of its call of command.Run
    text,          \* tokenizer: the captured output c.stdout.String()
    rows,          \* tokenizer: the rows Run returns for it
    stage,         \* tokenizer: "off" | "input" | "tokenized" | "mapped"
    mapOp,         \* the query that maps the rows
    mapRes         \* its outcome

vars == <<Local, client, conns, dialCalls, openSessions, calls, serial, run,
          text, rows, stage, mapOp, mapRes>>
handleVars == <<Local, client, conns, dialCalls, openSessions, calls, serial, run>>
parseVars == <<text, rows, stage, mapOp, mapRes>>

(***************************************************************************)
(* Strings.                                                                *)
(***************************************************************************)
\* unicode.IsSpace, on the characters the model uses
Whitespace == {" ", "\t", "\n", "\r", "\f"}

Contains(s, ch) == \E i \in 1..Len(s) : s[i] = ch

RECURSIVE Join(_, _)
Join(a, sep) ==
    IF Len(a) = 0 THEN <<>>
    ELSE IF Len(a) = 1 THEN a[1]
    ELSE a[1] \o sep \o Join(Tail(a), sep)

\* strings.Split(s, sep) for a one-character sep: n separators give n+1 parts
RECURSIVE Split(_, _)
Split(s, sep) ==
    IF ~Contains(s, sep) THEN <<s>>
    ELSE LET i == CHOOSE k \in 1..Len(s) :
                      s[k] = sep /\ \A j \in 1..(k - 1) : s[j] # sep
         IN  <<SubSeq(s, 1, i - 1)>> \o Split(SubSeq(s, i + 1, Len(s)), sep)

\* strings.Fields(l): the maximal runs of non-whitespace characters, in order
RECURSIVE Fields(_)
Fields(l) ==
    IF Len(l) = 0 THEN <<>>
    ELSE IF l[1] \in Whitespace THEN Fields(Tail(l))
    ELSE LET stops == {k \in 1..Len(l) : l[k] \in Whitespace}
             e == IF stops = {} THEN Len(l) + 1
                  ELSE CHOOSE k \in stops : \A j \in stops : k <= j
         IN  <<SubSeq(l, 1, e - 1)>> \o Fields(SubSeq(l, e, Len(l)))

(***************************************************************************)
(* The row tokenizer: the tail of command.Run.                             *)
(***************************************************************************)
\* a tokenizer that keeps the last line
DropLastNone(lines) == lines

\* lines = lines[0 : len(lines)-1]
DropLast(lines) == SubSeq(lines, 1, Len(lines) - 1)

\* strings.Split, drop the last line, strings.Fields on every line left
Tokenize(out) ==
    LET lines == DropLast(Split(out, "\n"))
    IN  [i \in 1..Len(lines) |-> Fields(lines[i])]

(***************************************************************************)
(* The tabular record mappers.  The model is of the non-solaris build:     *)
(* Dataset.parseLine reads line[0] .. line[11].                            *)
(***************************************************************************)
DsPropListLen == 12      \* len(DsPropList)
ZpoolPropListLen == 5    \* len(ZpoolPropList)

EmptyStr == <<>>
Dash == <<"-">>

setString(value) == IF value = Dash THEN EmptyStr ELSE value

\* &Dataset{Name: name}
NewDataset(name) ==
    [Name |-> name, Origin |-> EmptyStr, Used |-> EmptyStr, Avail |-> EmptyStr,
     Mountpoint |-> EmptyStr, Compression |-> EmptyStr, Type |-> EmptyStr,
     Volsize |-> EmptyStr, Quota |-> EmptyStr, Written |-> EmptyStr,
     Logicalused |-> EmptyStr, ReceiveResumeToken |-> EmptyStr]

\* &Zpool{Name: name}
NewZpool(name) ==
    [Name |-> name, Health |-> EmptyStr, Allocated |-> EmptyStr,
     Size |-> EmptyStr, Free |-> EmptyStr]

\* a mapper that takes every row long enough
DsLineAcceptedLoose(line) == Len(line) >= DsPropListLen

\* len(line) != len(DsPropList) is an error
DsLineAccepted(line) == Len(line) = DsPropListLen

\* Dataset.parseLine: the error flag and the record after the call
\* (Go's line[k] is line[k+1] here)
DatasetParseLine(ds, line) ==
    IF ~DsLineAccepted(line) THEN [err |-> TRUE, ds |-> ds]
    ELSE [err |-> FALSE,
          ds |-> [Name |-> setString(line[1]),
                  Avail |-> setString(line[4]),
                  Compression |-> setString(line[6]),
                  Mountpoint |-> setString(line[5]),
                  Quota |-> setString(line[9]),
                  Type |-> setString(line[7]),
                  Origin |-> setString(line[2]),
                  Used |-> setString(line[3]),
                  Volsize |-> setString(line[8]),
                  Written |-> setString(line[10]),
                  Logicalused |-> setString(line[11]),
                  ReceiveResumeToken |-> setString(line[12])]]

\* Zpool.parseLine
ZpoolParseLine(zp, line) ==
    IF Len(line) # ZpoolPropListLen THEN [err |-> TRUE, zp |-> zp]
    ELSE [err |-> FALSE,
          zp |-> [Name |-> setString(line[1]), Health |-> setString(line[2]),
                  Allocated |-> setString(line[3]), Size |-> setString(line[4]),
                  Free |-> setString(line[5])]]

\* The outcome of a query: kind is "ok" (val is the result), "err" (a returned
\* error, val is the nil result) or "panic" (a run-time panic of the Go code).
Outcome(kind, val) == [kind |-> kind, val |-> val]
NilVal == <<>>

\* the loop of GetDataset over the rows, ds being the record so far
RECURSIVE GetDatasetLoop(_, _)
GetDatasetLoop(ds, out) ==
    IF Len(out) = 0 THEN Outcome("ok", ds)
    ELSE LET r == DatasetParseLine(ds, out[1])
         IN  IF r.err THEN Outcome("err", NilVal)
             ELSE GetDatasetLoop(r.ds, Tail(out))

\* ZfsH.GetDataset, from the rows its command returned
GetDataset(name, out) == GetDatasetLoop(NewDataset(name), out)

\* the grouping loop shared by listByType and Children: name is the leading
\* field of the previous row, datasets the records so far (ds is the last one)
RECURSIVE GroupLoop(_, _, _)
GroupLoop(name, datasets, out) ==
    IF Len(out) = 0 THEN Outcome("ok", datasets)
    ELSE LET line == out[1]
         IN  IF Len(line) = 0 THEN Outcome("panic", NilVal)   \* line[0]
             ELSE LET fresh == name # line[1]
                      cur == IF fresh THEN NewDataset(line[1])
                             ELSE datasets[Len(datasets)]
                      r == DatasetParseLine(cur, line)
                      kept == IF fresh THEN datasets
                              ELSE SubSeq(datasets, 1, Len(datasets) - 1)
                  IN  IF ~fresh /\ Len(datasets) = 0
                      THEN \* ds is still nil: parseLine on a nil *Dataset
                           IF DsLineAccepted(line) THEN Outcome("panic", NilVal)
                           ELSE Outcome("err", NilVal)
                      ELSE IF r.err THEN Outcome("err", NilVal)
                      ELSE GroupLoop(line[1], Append(kept, r.ds), Tail(out))

\* ZfsH.listByType, from the rows its command returned
listByType(out) == GroupLoop(EmptyStr, <<>>, out)

\* a Children that returns every record of the listing
ChildrenAll(out) == GroupLoop(EmptyStr, <<>>, out)

\* ZfsH.Children, from the rows its command returned: datasets[1:]
Children(out) ==
    LET g == GroupLoop(EmptyStr, <<>>, out)
    IN  IF g.kind # "ok" THEN g
        ELSE IF Len(g.val) = 0 THEN Outcome("panic", NilVal)
        ELSE Outcome("ok", Tail(g.val))

RECURSIVE GetZpoolLoop(_, _)
GetZpoolLoop(zp, out) ==
    IF Len(out) = 0 THEN Outcome("ok", zp)
    ELSE LET r == ZpoolParseLine(zp, out[1])
         IN  IF r.err THEN Outcome("err", NilVal)
             ELSE GetZpoolLoop(r.zp, Tail(out))

\* ZfsH.GetZpool, from the rows its command returned: out = out[1:] drops the
\* header row (zpool list has no -H)
GetZpool(name, out) ==
    IF Len(out) = 0 THEN Outcome("panic", NilVal)
    ELSE GetZpoolLoop(NewZpool(name), Tail(out))

(***************************************************************************)
(* Command specs, as the API functions of zfs.go build them.               *)
(***************************************************************************)
SendDefault == 1
SendIncremental == 2
SendRecursive == 4
SendIntermediate == 8
SendLz4 == 16
SendEmbeddedData == 32
SendWithToken == 64

\* a test that takes every flags value of at least bit as having the bit
HasBitOrMore(flags, bit) == flags >= bit

\* flags&bit != 0
HasBit(flags, bit) == (flags \div bit) % 2 = 1

Space == <<" ">>
Pipe == <<"|">>

\* command{...}: Stdin, Stdout and Stderr tell whether the field is non-nil
Command(prog, stdin, stdout) ==
    [Command |-> prog, Stdin |-> stdin, Stdout |-> stdout, Stderr |-> FALSE]

\* strings.Join(DsPropList, ","), one opaque word
DsPropNames == <<"DsPropList">>

\* ZfsH.zfs: command{Command: "zfs", zh: z}
zfsCommand == Command(<<"zfs">>, FALSE, FALSE)

\* ZfsH.GetDataset: z.zfs("list", "-Hp", "-o", <props>, name)
GetDatasetArgs(name) == << <<"list">>, <<"-Hp">>, <<"-o">>, DsPropNames, name >>

\* ZfsH.ReceiveSnapshot: the command it runs
ReceiveSnapshotCommand(input, uncompress) ==
    Command(IF uncompress # EmptyStr THEN uncompress \o Pipe \o <<"zfs">>
            ELSE <<"zfs">>,
            input, FALSE)

\* ZfsH.ReceiveSnapshot: props with a "=" become -o prop
RECURSIVE ReceivePropArgs(_)
ReceivePropArgs(props) ==
    IF Len(props) = 0 THEN <<>>
    ELSE (IF Contains(props[1], "=") THEN << <<"-o">>, props[1] >> ELSE <<>>)
         \o ReceivePropArgs(Tail(props))

ReceiveSnapshotArgs(name, props) ==
    << <<"receive">> >> \o ReceivePropArgs(props) \o << <<"-s">>, name >>

\* ZfsH.SendSnapshot: the two early returns ("can only send snapshots",
\* "Source snapshot must be set for incremental send")
SendSnapshotRejects(ds0, ds1, sendflags) ==
    \/ ~HasBit(sendflags, SendWithToken) /\ ~Contains(ds0, "@")
    \/ HasBit(sendflags, SendIncremental) /\ ds1 = EmptyStr

SendSnapshotCommand(output) == Command(<<"zfs">>, FALSE, output)

\* ZfsH.SendSnapshot: the argument list
SendSnapshotArgs(ds0, ds1, sendflags, compress) ==
    << <<"send">> >>
    \o (IF HasBit(sendflags, SendRecursive) THEN << <<"-R">> >> ELSE <<>>)
    \o (IF HasBit(sendflags, SendLz4) THEN << <<"-c">> >> ELSE <<>>)
    \o (IF HasBit(sendflags, SendWithToken) THEN << <<"-t">> >> ELSE <<>>)
    \o (IF HasBit(sendflags, SendEmbeddedData) THEN << <<"-e">> >> ELSE <<>>)
    \o (IF HasBit(sendflags, SendIncremental)
        THEN IF HasBit(sendflags, SendIntermediate) THEN << <<"-I">>, ds1 >>
             ELSE << <<"-i">>, ds1 >>
        ELSE <<>>)
    \o << ds0 >>
    \o (IF compress # EmptyStr THEN << Pipe, compress >> ELSE <<>>)

\* DatasetSnapshot
DatasetSnapshot == <<"snapshot">>

\* ZfsH.Clone: the early return "can only clone snapshots"
CloneRejects(d) == d.Type # DatasetSnapshot

\* propsSlice: -o key=value for every property, the properties being given
\* here in the order the map is iterated
RECURSIVE propsSlice(_)
propsSlice(properties) ==
    IF Len(properties) = 0 THEN <<>>
    ELSE << <<"-o">>, properties[1] >> \o propsSlice(Tail(properties))

\* ZfsH.Clone: the argument list
CloneArgs(d, dest, properties) ==
    << <<"clone">>, <<"-p">> >> \o propsSlice(properties) \o << d.Name, dest >>

\* a Rollback that takes every dataset
RollbackRejectsNone(d) == FALSE

\* ZfsH.Rollback: the early return "can only rollback snapshots"
RollbackRejects(d) == d.Type # DatasetSnapshot

\* ZfsH.Rollback: the argument list
RollbackArgs(d, destroyMoreRecent) ==
    << <<"rollback">> >>
    \o (IF destroyMoreRecent THEN << <<"-r">> >> ELSE <<>>)
    \o << d.Name >>

DestroyDefault == 1
DestroyRecursive == 2
DestroyRecursiveClones == 4
DestroyDeferDeletion == 8
DestroyForceUmount == 16

\* ZfsH.Destroy: the argument list
DestroyArgs(d, flags) ==
    << <<"destroy">> >>
    \o (IF HasBit(flags, DestroyRecursive) THEN << <<"-r">> >> ELSE <<>>)
    \o (IF HasBit(flags, DestroyRecursiveClones) THEN << <<"-R">> >> ELSE <<>>)
    \o (IF HasBit(flags, DestroyDeferDeletion) THEN << <<"-d">> >> ELSE <<>>)
    \o (IF HasBit(flags, DestroyForceUmount) THEN << <<"-f">> >> ELSE <<>>)
    \o << d.Name >>

(***************************************************************************)
(* command.Run: its pure parts.                                            *)
(***************************************************************************)
\* joinedArgs := strings.Join(arg, " ")
JoinedArgs(arg) == Join(arg, Space)

\* c.Path = c.Command + " " + joinedArgs
PathOf(cmd, arg) == cmd.Command \o Space \o JoinedArgs(arg)

\* c.Env
RunEnv == << <<"LC_CTYPE", "=", "C">>, <<"LANG", "=", "en_US.UTF-8">> >>

\* strings.Contains(cmd.Command, "|")
UsesShell(cmd, arg) == Contains(cmd.Command, "|")

\* a binding that always captures standard output internally
StdoutBindingCaptured(cmd) == "buffer"

\* Stdout of the child or session: cmd.Stdout when set, else &cmd.stdout
StdoutBinding(cmd) == IF cmd.Stdout THEN "sink" ELSE "buffer"

\* Stderr of the child or session: cmd.Stderr when set, else &cmd.stderr
StderrBinding(cmd) == IF cmd.Stderr THEN "override" ELSE "buffer"

\* Stdin of the child or session: cmd.Stdin when set, else left unset
StdinBinding(cmd) == IF cmd.Stdin THEN "source" ELSE "none"

\* command.LocalPrepare: the exec.Cmd it returns.  mode says how the child is
\* spawned: "sh" (sh -c line), "argv" (program and arguments).  Env is left
\* nil: the child inherits the environment of this process.
LocalPrepare(cmd, arg) ==
    [mode |-> IF UsesShell(cmd, arg) THEN "sh" ELSE "argv",
     argv |-> IF UsesShell(cmd, arg)
              THEN << <<"sh">>, <<"-c">>, cmd.Command \o Space \o Join(arg, Space) >>
              ELSE <<cmd.Command>> \o arg,
     Stdout |-> StdoutBinding(cmd),
     Stdin |-> StdinBinding(cmd),
     Stderr |-> StderrBinding(cmd),
     Env |-> <<>>]

\* prepareCommand: the variables it passes to session.Setenv, in order
RECURSIVE SetenvCalls(_)
SetenvCalls(env) ==
    IF Len(env) = 0 THEN <<>>
    ELSE LET variable == Split(env[1], "=")
         IN  (IF Len(variable) # 2 THEN <<>> ELSE <<variable>>)
             \o SetenvCalls(Tail(env))

\* prepareCommand and session.Start(cmd.Path): the session as set up.  The
\* remote side runs the one string through the login shell.
RemotePrepare(cmd, path) ==
    [mode |-> "remote-shell",
     argv |-> <<path>>,
     Stdout |-> StdoutBinding(cmd),
     Stdin |-> StdinBinding(cmd),
     Stderr |-> StderrBinding(cmd),
     Env |-> SetenvCalls(RunEnv)]

NoErr == "nil"

\* a nil error, in the shape of *Error
NilError == [Err |-> NoErr, Debug |-> EmptyStr, Stderr |-> EmptyStr]

\* the errors.New(...) an API function returns before it runs anything
RejectError == [Err |-> "rejected", Debug |-> EmptyStr, Stderr |-> EmptyStr]

\* &Error{Err: err, Debug: strings.Join([]string{c.Command, joinedArgs}, " "),
\*        Stderr: c.stderr.String()}
RunError(err, cmd, arg, stderr) ==
    [Err |-> err, Debug |-> Join(<<cmd.Command, JoinedArgs(arg)>>, Space),
     Stderr |-> stderr]

\* what Run returns after a successful Wait: (nil, nil) when c.Stdout is set,
\* else the tokenized capture
RunSuccess(cmd, stdout) ==
    IF cmd.Stdout THEN [rows |-> NilVal, err |-> NilError]
    ELSE [rows |-> Tokenize(stdout), err |-> NilError]

(***************************************************************************)
(* command.Run as a state machine, one instance per caller.                *)
(***************************************************************************)
Callers == 1..NumCallers
Nil == 0

Snap == <<"p", "@", "s">>
PrevSnap == <<"p", "@", "r">>
Fs == <<"p">>
ChildFs == <<"p", "/", "c">>      \* a child filesystem of Fs
Lzop == <<"lzop">>
LzopD == <<"lzop", " ", "-d">>

\* what a command may write to its standard output and diagnostic stream
OutTexts == {EmptyStr, <<"a", "\t", "b", "\n">>, <<"a">>}
ErrTexts == {EmptyStr, <<"e">>}

NoProc == [mode |-> "none", argv |-> <<>>, Stdout |-> "none", Stdin |-> "none",
           Stderr |-> "none", Env |-> <<>>]
NoRet == [rows |-> NilVal, err |-> NilError]

NoInput == <<>>

\* the locals of a caller that is not inside an API call
IdleRun ==
    [pc |-> "idle", op |-> "none",
     inp |-> NoInput,        \* the arguments of the API call
     cmd |-> zfsCommand, arg |-> <<>>,
     Path |-> EmptyStr, id |-> 0, err |-> NoErr,
     session |-> FALSE,      \* Run's local session is non-nil
     sess |-> "none",        \* the ssh session of this call: none | open | closed
     proc |-> NoProc,        \* the child process or session as prepared
     stdout |-> EmptyStr, stderr |-> EmptyStr,   \* c.stdout, c.stderr
     sink |-> EmptyStr,      \* what the caller's c.Stdout received
     wroteOut |-> EmptyStr,  \* what the command wrote to its standard output
     wroteErr |-> EmptyStr,  \* what the command wrote to its diagnostic stream
     events |-> <<>>,        \* the logger.Log calls of this invocation
     ret |-> NoRet,          \* what Run returned
     sawNil |-> FALSE,       \* StartCommand read z.client == nil
     dialed |-> 0,           \* calls of dialSSH in this invocation
     waited |-> FALSE,       \* cmd.Wait() has returned
     clientAtStart |-> Nil,  \* z.client when Run was entered
     connAtStart |-> "none"] \* that connection when Run was entered: none | open | closed

InFlight(q) == run[q].pc \notin {"idle", "done", "panicked"}

\* a caller may start an API call
MayCall(p) ==
    /\ run[p].pc \in {"idle", "done"}
    /\ calls < MaxCalls
    /\ serial => p = 1

LogEvent(tag, id, kind, line) == [tag |-> tag, id |-> id, kind |-> kind, line |-> line]

\* command.Run up to and including the first logger.Log
BeginRun(p, op, inp, cmd, arg) ==
    /\ run' = [run EXCEPT ![p] =
                 [IdleRun EXCEPT
                    !.pc = IF Local THEN "local" ELSE "sc_check",
                    !.op = op, !.inp = inp, !.cmd = cmd, !.arg = arg,
                    !.Path = PathOf(cmd, arg),
                    !.id = calls + 1,
                    !.events = <<LogEvent(IF Local THEN "LOCAL" ELSE "REMOTE",
                                          calls + 1, "START", PathOf(cmd, arg))>>,
                    !.clientAtStart = client,
                    !.connAtStart = IF client = Nil THEN "none" ELSE conns[client]]]
    /\ calls' = calls + 1
    /\ UNCHANGED <<Local, client, conns, dialCalls, openSessions, serial, parseVars>>

\* an API function returns its own error before it builds or runs anything
Reject(p, op, inp) ==
    /\ run' = [run EXCEPT ![p] =
                 [IdleRun EXCEPT !.pc = "done", !.op = op, !.inp = inp,
                                 !.ret = [rows |-> NilVal, err |-> RejectError]]]
    /\ calls' = calls + 1
    /\ UNCHANGED <<Local, client, conns, dialCalls, openSessions, serial, parseVars>>

\* ZfsH.GetDataset calls z.zfs(...)
CallGetDataset(p) ==
    /\ MayCall(p)
    /\ BeginRun(p, "GetDataset", [name |-> Fs], zfsCommand, GetDatasetArgs(Fs))

\* ZfsH.ReceiveSnapshot calls c.Run(args...); the z.GetDataset(name) that
\* follows a success is a further call of Run (CallGetDataset)
CallReceiveSnapshot(p) ==
    /\ MayCall(p)
    /\ \E uncompress \in {EmptyStr, LzopD} :
          BeginRun(p, "ReceiveSnapshot", [name |-> Fs, uncompress |-> uncompress],
                   ReceiveSnapshotCommand(TRUE, uncompress),
                   ReceiveSnapshotArgs(Fs, <<>>))

\* ZfsH.SendSnapshot with its arguments drawn from the given sets
SendSnapshotWith(p, sources, previous, flagsets, programs) ==
    /\ MayCall(p)
    /\ \E ds0 \in sources, ds1 \in previous, sendflags \in flagsets,
          compress \in programs :
          LET inp == [ds0 |-> ds0, ds1 |-> ds1, sendflags |-> sendflags,
                      compress |-> compress]
          IN  IF SendSnapshotRejects(ds0, ds1, sendflags)
              THEN Reject(p, "SendSnapshot", inp)
              ELSE BeginRun(p, "SendSnapshot", inp, SendSnapshotCommand(TRUE),
                            SendSnapshotArgs(ds0, ds1, sendflags, compress))

\* ZfsH.SendSnapshot
CallSendSnapshot(p) ==
    SendSnapshotWith(p, {Snap, Fs}, {EmptyStr, PrevSnap},
                     {SendDefault, SendIncremental, SendWithToken}, {EmptyStr, Lzop})

\* ZfsH.SendSnapshot of a full stream, as the overlapping callers use it
CallSendSnapshotFull(p) ==
    SendSnapshotWith(p, {Snap, Fs}, {PrevSnap}, {SendDefault}, {EmptyStr, Lzop})

\* a *Dataset handed to Clone or Rollback: its Name and its Type
SnapshotDs == [Name |-> Snap, Type |-> DatasetSnapshot]
FilesystemDs == [Name |-> Fs, Type |-> <<"filesystem">>]

\* ZfsH.Clone up to its z.zfs(args...); the z.GetDataset(dest) that follows a
\* success is a further call of Run (CallGetDataset)
CallClone(p) ==
    /\ MayCall(p)
    /\ \E d \in {SnapshotDs, FilesystemDs} :
          LET inp == [d |-> d, dest |-> ChildFs]
          IN  IF CloneRejects(d)
              THEN Reject(p, "Clone", inp)
              ELSE BeginRun(p, "Clone", inp, zfsCommand, CloneArgs(d, ChildFs, <<>>))

\* ZfsH.Rollback
CallRollback(p) ==
    /\ MayCall(p)
    /\ \E d \in {SnapshotDs, FilesystemDs}, destroyMoreRecent \in BOOLEAN :
          LET inp == [d |-> d, destroyMoreRecent |-> destroyMoreRecent]
          IN  IF RollbackRejects(d)
              THEN Reject(p, "Rollback", inp)
              ELSE BeginRun(p, "Rollback", inp, zfsCommand,
                            RollbackArgs(d, destroyMoreRecent))

\* local target: lcmd := c.LocalPrepare(arg...); err = lcmd.Start()
LocalStart(p) ==
    /\ run[p].pc = "local"
    /\ \E started \in BOOLEAN :
          run' = [run EXCEPT ![p].proc = LocalPrepare(run[p].cmd, run[p].arg),
                             ![p].err = IF started THEN NoErr ELSE "start",
                             ![p].pc = "started"]
    /\ UNCHANGED <<Local, client, conns, dialCalls, openSessions, calls, serial, parseVars>>

\* the test of StartCommand that decides whether dialSSH is called
NeedDialAlways(c) == TRUE

\* z.client == nil
NeedDial(c) == c = Nil

\* StartCommand: if (z.client == nil)
SCCheck(p) ==
    /\ run[p].pc = "sc_check"
    /\ run' = [run EXCEPT ![p].sawNil = (client = Nil),
                          ![p].pc = IF NeedDial(client) THEN "sc_dial" ELSE "sc_session"]
    /\ UNCHANGED <<Local, client, conns, dialCalls, openSessions, calls, serial, parseVars>>

\* ZfsH.dialSSH: getKeyFile fails and dialSSH panics, or ssh.Dial returns and
\* its client result, nil on failure, is stored in z.client
SCDial(p) ==
    /\ run[p].pc = "sc_dial"
    /\ dialCalls' = dialCalls + 1
    /\ \E outcome \in {"badkey", "unreachable", "connected"} :
          CASE outcome = "badkey" ->
                 /\ run' = [run EXCEPT ![p].pc = "panicked", ![p].dialed = @ + 1]
                 /\ UNCHANGED <<client, conns>>
            [] outcome = "unreachable" ->
                 /\ run' = [run EXCEPT ![p].pc = "started", ![p].err = "dial",
                                       ![p].dialed = @ + 1]
                 /\ client' = Nil
                 /\ UNCHANGED conns
            [] outcome = "connected" ->
                 /\ run' = [run EXCEPT ![p].pc = "sc_session", ![p].dialed = @ + 1]
                 /\ conns' = Append(conns, "open")
                 /\ client' = Len(conns) + 1
    /\ UNCHANGED <<Local, openSessions, calls, serial, parseVars>>

\* StartCommand: z.client.NewSession().  A nil z.client is a nil dereference
\* inside NewSession; a closed connection opens no session.
SCSession(p) ==
    /\ run[p].pc = "sc_session"
    /\ IF client = Nil
       THEN /\ run' = [run EXCEPT ![p].pc = "panicked"]
            /\ UNCHANGED openSessions
       ELSE \E opened \in (IF conns[client] = "open" THEN BOOLEAN ELSE {FALSE}) :
              IF opened
              THEN /\ run' = [run EXCEPT ![p].sess = "open", ![p].pc = "sc_prepare"]
                   /\ openSessions' = openSessions + 1
              ELSE /\ run' = [run EXCEPT ![p].err = "session", ![p].pc = "started"]
                   /\ UNCHANGED openSessions
    /\ UNCHANGED <<Local, client, conns, dialCalls, calls, serial, parseVars>>

\* StartCommand: prepareCommand(session, cmd); a failing session.Setenv makes
\* StartCommand return (err, nil)
SCPrepare(p) ==
    /\ run[p].pc = "sc_prepare"
    /\ \E envok \in BOOLEAN :
          IF envok
          THEN run' = [run EXCEPT ![p].proc = RemotePrepare(run[p].cmd, run[p].Path),
                                  ![p].pc = "sc_start"]
          ELSE run' = [run EXCEPT ![p].err = "setenv", ![p].pc = "started"]
    /\ UNCHANGED <<Local, client, conns, dialCalls, openSessions, calls, serial, parseVars>>

\* StartCommand: session.Start(cmd.Path) and the two returns after it, then
\* Run's if (session != nil) { defer session.Close() }
SCStart(p) ==
    /\ run[p].pc = "sc_start"
    /\ \E started \in BOOLEAN :
          IF started
          THEN run' = [run EXCEPT ![p].session = TRUE, ![p].pc = "started"]
          ELSE run' = [run EXCEPT ![p].err = "start", ![p].pc = "started"]
    /\ UNCHANGED <<Local, client, conns, dialCalls, openSessions, calls, serial, parseVars>>

\* the deferred session.Close() of Run, on the record r of the caller
Deferred(r) == IF r.session /\ r.sess = "open" THEN [r EXCEPT !.sess = "closed"] ELSE r

\* Run returns ret: the deferred close runs
Return(p, r, ret) ==
    /\ run' = [run EXCEPT ![p] = [Deferred(r) EXCEPT !.pc = "done", !.ret = ret]]
    /\ openSessions' = IF Deferred(r).sess # r.sess THEN openSessions - 1
                       ELSE openSessions

\* logger.Log({"ID:" + id, "DONE"}), then if err != nil { return nil, &Error{...} }
LogDone(p) ==
    /\ run[p].pc = "started"
    /\ LET r == [run[p] EXCEPT
                   !.events = Append(@, LogEvent("ID", run[p].id, "DONE", EmptyStr))]
       IN  IF r.err # NoErr
           THEN Return(p, r, [rows |-> NilVal,
                              err |-> RunError(r.err, r.cmd, r.arg, r.stderr)])
           ELSE /\ run' = [run EXCEPT ![p] = [r EXCEPT !.pc = "wait"]]
                /\ UNCHANGED openSessions
    /\ UNCHANGED <<Local, client, conns, dialCalls, calls, serial, parseVars>>

\* cmd.Wait() and the rest of Run.  The command has written out to its
\* standard output and e to its diagnostic stream, each to where it is bound.
Wait(p) ==
    /\ run[p].pc = "wait"
    /\ \E out \in OutTexts, e \in ErrTexts, ok \in BOOLEAN :
          LET r == [run[p] EXCEPT
                      !.stdout = IF run[p].proc.Stdout = "buffer" THEN out ELSE @,
                      !.sink = IF run[p].proc.Stdout = "sink" THEN out ELSE @,
                      !.stderr = IF run[p].proc.Stderr = "buffer" THEN e ELSE @,
                      !.wroteOut = out, !.wroteErr = e,
                      !.waited = TRUE]
          IN  IF ~ok
              THEN Return(p, [r EXCEPT !.err = "wait"],
                          [rows |-> NilVal,
                           err |-> RunError("wait", r.cmd, r.arg, r.stderr)])
              ELSE Return(p, r, RunSuccess(r.cmd, r.stdout))
    /\ UNCHANGED <<Local, client, conns, dialCalls, calls, serial, parseVars>>

\* a Close that also forgets the connection: z.client = nil after z.client.Close()
CloseAndForget ==
    /\ serial => \A q \in Callers : ~InFlight(q)
    /\ conns' = IF client # Nil THEN [conns EXCEPT ![client] = "closed"] ELSE conns
    /\ client' = Nil
    /\ UNCHANGED <<Local, dialCalls, openSessions, calls, serial, run, parseVars>>

\* ZfsH.Close: z.client.Close() when z.client is set, nothing otherwise;
\* z.client is left as it is
Close ==
    /\ serial => \A q \in Callers : ~InFlight(q)
    /\ conns' = IF client # Nil THEN [conns EXCEPT ![client] = "closed"] ELSE conns
    /\ UNCHANGED <<Local, client, dialCalls, openSessions, calls, serial, run, parseVars>>

\* NewLocalHandle / NewSSHHandle: no connection, nothing dialed
InitHandle ==
    /\ Local \in BOOLEAN
    /\ client = Nil
    /\ conns = <<>>
    /\ dialCalls = 0
    /\ openSessions = 0
    /\ calls = 0
    /\ run = [p \in Callers |-> IdleRun]

ParseOff ==
    /\ text = EmptyStr
    /\ rows = <<>>
    /\ stage = "off"
    /\ mapOp = "none"
    /\ mapRes = Outcome("none", NilVal)

Init == InitHandle /\ serial = FALSE /\ ParseOff

InitSeq == InitHandle /\ serial = TRUE /\ ParseOff

Next ==
    \/ \E p \in Callers : CallGetDataset(p)
    \/ \E p \in Callers : CallReceiveSnapshot(p)
    \/ \E p \in Callers : CallSendSnapshot(p)
    \/ \E p \in Callers : CallClone(p)
    \/ \E p \in Callers : CallRollback(p)
    \/ \E p \in Callers : LocalStart(p)
    \/ \E p \in Callers : SCCheck(p)
    \/ \E p \in Callers : SCDial(p)
    \/ \E p \in Callers : SCSession(p)
    \/ \E p \in Callers : SCPrepare(p)
    \/ \E p \in Callers : SCStart(p)
    \/ \E p \in Callers : LogDone(p)
    \/ \E p \in Callers : Wait(p)
    \/ Close

\* ZfsH.Destroy, for every value of its flags
CallDestroy(p) ==
    /\ MayCall(p)
    /\ \E flags \in 0..(2 * DestroyForceUmount - 1) :
          BeginRun(p, "Destroy", [d |-> SnapshotDs, flags |-> flags], zfsCommand,
                   DestroyArgs(SnapshotDs, flags))

\* ZfsH.SendSnapshot of a snapshot, for every value of its flags
CallSendSnapshotFlags(p) ==
    SendSnapshotWith(p, {Snap}, {PrevSnap}, 0..(2 * SendWithToken - 1), {EmptyStr})

\* the calls that encode flags, as far as the command line they hand to Run
NextFlags ==
    \/ \E p \in Callers : CallDestroy(p)
    \/ \E p \in Callers : CallSendSnapshotFlags(p)

SpecFlags == InitSeq /\ [][NextFlags]_vars

\* the steps of callers that overlap: fewer kinds of calls, every step of Run
NextOverlap ==
    \/ \E p \in Callers : CallGetDataset(p)
    \/ \E p \in Callers : CallReceiveSnapshot(p)
    \/ \E p \in Callers : CallSendSnapshotFull(p)
    \/ \E p \in Callers : LocalStart(p)
    \/ \E p \in Callers : SCCheck(p)
    \/ \E p \in Callers : SCDial(p)
    \/ \E p \in Callers : SCSession(p)
    \/ \E p \in Callers : SCPrepare(p)
    \/ \E p \in Callers : SCStart(p)
    \/ \E p \in Callers : LogDone(p)
    \/ \E p \in Callers : Wait(p)
    \/ Close

\* callers that may overlap their calls
Spec == Init /\ [][NextOverlap]_vars

\* calls that never overlap
SpecSeq == InitSeq /\ [][Next]_vars

(***************************************************************************)
(* The tokenizer and the mappers on their own: the captured output of a    *)
(* successful Run without an output sink is drawn from a bounded set, Run  *)
(* tokenizes it and one of the queries maps the rows.                      *)
(***************************************************************************)
TokAlphabet == {"a", " ", "\n"}

StrsUpTo(S, n) == UNION {[1..k -> S] : k \in 0..n}

\* free-form captured text
ShortTexts == StrsUpTo(TokAlphabet, MaxTextLen)

Tab == <<"\t">>

\* one line of zfs list -H -o <DsPropList> for the dataset name: 12 columns
DsRow(name) ==
    Join(<<name, Dash, <<"1">>, <<"2">>, <<"/", "p">>, <<"off">>, <<"filesystem">>,
           Dash, <<"none">>, <<"0">>, <<"1">>, Dash>>, Tab)

\* one line of zpool list -o <ZpoolPropList>: 5 columns
PoolRow == Join(<< <<"p">>, <<"ONLINE">>, <<"1">>, <<"2">>, <<"1">> >>, Space)

\* a line of 13 columns
LongRow == DsRow(Fs) \o Tab \o <<"x">>

RowLines == {DsRow(Fs), DsRow(Snap), DsRow(ChildFs), LongRow, PoolRow, <<"a", " ", "b">>}

RECURSIVE Unlines(_)
Unlines(ls) == IF Len(ls) = 0 THEN <<>> ELSE ls[1] \o <<"\n">> \o Unlines(Tail(ls))

\* tabular captured text: newline-terminated lines, then possibly an
\* unterminated last line
RowTexts ==
    {Unlines(ls) \o last : ls \in StrsUpTo(RowLines, MaxLines),
                           last \in RowLines \cup {EmptyStr}}

\* "a b\nc d\n" and "a b\nc d\n\n"
TwoLines == <<"a", " ", "b", "\n", "c", " ", "d", "\n">>
TwoLinesAndBlank == TwoLines \o <<"\n">>

TextInputs == ShortTexts \cup RowTexts \cup {TwoLines, TwoLinesAndBlank}

\* no caller takes part: the handle is a local one that is never used
InitParse ==
    /\ Local = TRUE /\ client = Nil /\ conns = <<>> /\ dialCalls = 0
    /\ openSessions = 0 /\ calls = 0 /\ serial = TRUE /\ run = <<>>
    /\ text \in TextInputs
    /\ rows = <<>>
    /\ stage = "input"
    /\ mapOp = "none"
    /\ mapRes = Outcome("none", NilVal)

\* the tail of command.Run on the captured text
TokenizeStep ==
    /\ stage = "input"
    /\ rows' = Tokenize(text)
    /\ stage' = "tokenized"
    /\ UNCHANGED <<text, mapOp, mapRes, handleVars>>

Mapped(op, res) ==
    /\ stage = "tokenized"
    /\ mapOp' = op
    /\ mapRes' = res
    /\ stage' = "mapped"
    /\ UNCHANGED <<text, rows, handleVars>>

MapGetDataset == Mapped("GetDataset", GetDataset(Fs, rows))
MapListByType == Mapped("listByType", listByType(rows))
MapChildren == Mapped("Children", Children(rows))
MapGetZpool == Mapped("GetZpool", GetZpool(Fs, rows))

NextParse ==
    \/ TokenizeStep
    \/ MapGetDataset
    \/ MapListByType
    \/ MapChildren
    \/ MapGetZpool

SpecParse == InitParse /\ [][NextParse]_vars

(***************************************************************************)
(* The claims.                                                             *)
(***************************************************************************)
\* caller p is in, or has left, a call of command.Run
RunInvoked(p) == run[p].id # 0
\* the call of command.Run by p has returned
RunReturned(p) == RunInvoked(p) /\ run[p].pc = "done"

\* C1: on a remote target every session a Run call opens is closed before
\* that call returns, whatever the outcome, and when no call is in progress no
\* session is left open.
C1_SessionsReleased ==
    /\ \A p \in Callers : RunReturned(p) => run[p].sess # "open"
    /\ (\A p \in Callers : ~InFlight(p)) => openSessions = 0

\* C2: callers that run concurrently on one remote target whose connection is
\* not yet established never make the target dial a second connection: at
\* most one connection is ever established for the target.
C2_OneConnection == Len(conns) <= 1

\* C3, the state part: with calls that do not overlap, creating the handle dials nothing; a
\* Run calls dialSSH exactly when the target held no connection as the Run
\* began; once a dial has succeeded no later Run dials; a local target never
\* dials and never opens a session.
C3_PastDial(p) ==
    run[p].pc \in {"sc_session", "sc_prepare", "sc_start", "started", "wait",
                   "done", "panicked"}

C3_State ==
    /\ calls = 0 => dialCalls = 0 /\ client = Nil /\ conns = <<>>
    /\ \A p \in Callers :
          ~Local /\ RunInvoked(p) /\ C3_PastDial(p) =>
             run[p].dialed = (IF run[p].clientAtStart = Nil THEN 1 ELSE 0)
    /\ Len(conns) <= 1
    /\ Local => /\ dialCalls = 0 /\ client = Nil /\ conns = <<>>
                /\ openSessions = 0
                /\ \A p \in Callers : run[p].sess = "none" /\ run[p].dialed = 0

\* C3: C3_State in every state, and no step dials once a connection exists
C3_LazyDialReuse ==
    /\ []C3_State
    /\ [][Len(conns) >= 1 => dialCalls' = dialCalls /\ Len(conns') = Len(conns)]_vars

\* C3 witness: the second Run on a remote target, made after the first one
\* dialed and connected, has returned successfully without dialing
C3_Witness ==
    /\ ~Local /\ Len(conns) = 1 /\ dialCalls = 1
    /\ RunReturned(1) /\ run[1].id = 2 /\ run[1].dialed = 0
    /\ run[1].clientAtStart # Nil /\ run[1].ret.err = NilError

\* C4: when the connection cannot be established (the key file cannot be read
\* or parsed, or the host cannot be reached) Run gives the failure back as its
\* returned error and in no other way; that call opened no session, called
\* dialSSH once, returns no rows and leaves the target without a connection.
C4_DialFailureReturned ==
    \A p \in Callers :
       /\ run[p].pc # "panicked"
       /\ RunReturned(p) /\ run[p].ret.err.Err = "dial" =>
             /\ run[p].sess = "none" /\ run[p].dialed = 1
             /\ run[p].ret.rows = NilVal /\ client = Nil

\* the command spec holds a pipe marker: in the program string (ReceiveSnapshot
\* with an uncompress program) or as an argument (SendSnapshot with a compress
\* program)
PipedSpec(cmd, arg) ==
    Contains(cmd.Command, "|") \/ \E i \in 1..Len(arg) : Contains(arg[i], "|")

\* C5: on a local target a command spec with a pipe marker is run as one
\* sh -c line and a spec without one is run as an argv array; no pipe token is
\* ever handed to a program as a literal argument.
C5_PipedMeansShell ==
    \A p \in Callers :
       Local /\ run[p].proc.mode # "none" =>
          /\ PipedSpec(run[p].cmd, run[p].arg) <=> run[p].proc.mode = "sh"
          /\ run[p].proc.mode = "argv" =>
                \A i \in 1..Len(run[p].proc.argv) : ~Contains(run[p].proc.argv[i], "|")

\* the call of command.Run by p has ended in failure: it returned after a
\* failed start or a failed wait, or it was cut short by a panic
RunFailed(p) ==
    /\ RunInvoked(p)
    /\ run[p].pc = "panicked" \/ (run[p].pc = "done" /\ run[p].err # NoErr)

\* (nil, &Error{...}) with the underlying failure, the debug string
\* "<program> <arguments joined by spaces>" and the diagnostic text
ReturnsFullError(p) ==
    /\ run[p].pc = "done"
    /\ run[p].ret.rows = NilVal
    /\ run[p].ret.err.Err = run[p].err
    /\ run[p].ret.err.Debug = run[p].cmd.Command \o <<" ">> \o Join(run[p].arg, <<" ">>)
    /\ run[p].ret.err.Stderr = run[p].wroteErr

\* C6: whenever Run fails, because the command could not be started or
\* because waiting for it failed, it returns no rows and an Error that carries
\* the underlying failure, the debug string and the diagnostic text written so
\* far, on local and remote targets, with or without an output sink.
C6_FailureCarriesAll == \A p \in Callers : RunFailed(p) => ReturnsFullError(p)

\* the same on the paths of Run that return
C6_OnReturn ==
    \A p \in Callers : RunFailed(p) /\ run[p].pc = "done" => ReturnsFullError(p)

\* C7: the two output modes exclude each other.  With an output sink the
\* standard output of the command goes to the sink only, nothing is captured
\* and a successful Run returns no rows and no error; without one it is
\* captured and a successful Run returns its rows.
C7_OutputModesExclusive ==
    \A p \in Callers :
       /\ run[p].cmd.Stdout => run[p].stdout = EmptyStr
       /\ ~run[p].cmd.Stdout => run[p].sink = EmptyStr
       /\ RunInvoked(p) /\ run[p].waited =>
             IF run[p].cmd.Stdout
             THEN run[p].sink = run[p].wroteOut
             ELSE run[p].stdout = run[p].wroteOut
       /\ RunReturned(p) /\ run[p].err = NoErr =>
             /\ run[p].ret.err = NilError
             /\ run[p].ret.rows = IF run[p].cmd.Stdout THEN NilVal
                                  ELSE Tokenize(run[p].wroteOut)

\* C7 witness: a successful Run with a sink has returned no rows, the sink
\* holding the output of the command
C7_Witness ==
    \E p \in Callers :
       /\ RunReturned(p) /\ run[p].err = NoErr /\ run[p].cmd.Stdout
       /\ run[p].sink = <<"a", "\t", "b", "\n">> /\ run[p].ret.rows = NilVal

\* the events of the kind logged by the call of p
EventsOf(p, kind) == {i \in 1..Len(run[p].events) : run[p].events[i].kind = kind}

\* C8: every Run invocation that returns has logged exactly two events with
\* one correlation identifier: a start event with the full command line before
\* the command is started, and a completion event; the completion event of a
\* command that was started is logged only after waiting on it has returned.
C8_StartThenDoneAfterWait ==
    \A p \in Callers :
       /\ RunReturned(p) =>
             /\ Len(run[p].events) = 2
             /\ run[p].events[1].kind = "START" /\ run[p].events[2].kind = "DONE"
             /\ run[p].events[1].id = run[p].events[2].id
             /\ run[p].events[1].line = run[p].Path
       /\ EventsOf(p, "DONE") # {} /\ run[p].err = NoErr => run[p].waited

(***************************************************************************)
(* The tokenizer, stated without Split and Fields.                         *)
(***************************************************************************)
NewlinePos(t) == {i \in 1..Len(t) : t[i] = "\n"}

\* the position of the n-th newline of t; 0 for n = 0
NthNewline(t, n) ==
    IF n = 0 THEN 0
    ELSE CHOOSE i \in NewlinePos(t) : Cardinality({j \in NewlinePos(t) : j <= i}) = n

\* the n-th newline-terminated line of t, without its newline
LineAt(t, n) == SubSeq(t, NthNewline(t, n - 1) + 1, NthNewline(t, n) - 1)

\* the text after the last newline of t
LastLine(t) ==
    SubSeq(t, NthNewline(t, Cardinality(NewlinePos(t))) + 1, Len(t))

Blank(l) == \A i \in 1..Len(l) : l[i] \in Whitespace

WordStarts(l) ==
    {i \in 1..Len(l) : l[i] \notin Whitespace /\ (i = 1 \/ l[i - 1] \in Whitespace)}

WordEnds(l) ==
    {i \in 1..Len(l) : l[i] \notin Whitespace /\ (i = Len(l) \/ l[i + 1] \in Whitespace)}

NthOf(S, n) == CHOOSE i \in S : Cardinality({j \in S : j <= i}) = n

\* fs holds the whitespace-separated fields of l, in order
IsFieldsOf(fs, l) ==
    /\ Len(fs) = Cardinality(WordStarts(l))
    /\ \A n \in 1..Len(fs) :
          fs[n] = SubSeq(l, NthOf(WordStarts(l), n), NthOf(WordEnds(l), n))

Tokenized == stage \in {"tokenized", "mapped"}

\* t is k >= 0 newline-terminated data lines followed by one blank line
DataLinesThenBlank(t) ==
    /\ Len(t) >= 1 /\ t[Len(t)] = "\n"
    /\ Len(t) >= 2 => t[Len(t) - 1] = "\n"
    /\ \A n \in 1..(Cardinality(NewlinePos(t)) - 1) : ~Blank(LineAt(t, n))

\* C9 as claimed: text made of k newline-terminated data lines and one blank
\* line gives exactly k rows, one per data line, and none for the blank line;
\* "a b\nc d\n\n" gives the rows ["a","b"] and ["c","d"].
C9_BlankLineDropped ==
    /\ Tokenized /\ DataLinesThenBlank(text) =>
          /\ Len(rows) = Cardinality(NewlinePos(text)) - 1
          /\ \A n \in 1..Len(rows) : IsFieldsOf(rows[n], LineAt(text, n))
    /\ Tokenized /\ text = TwoLinesAndBlank =>
          rows = << <<<<"a">>, <<"b">>>>, <<<<"c">>, <<"d">>>> >>

\* C9 as amended: text made of k newline-terminated lines (it is empty or its
\* last character is the newline) gives exactly k rows, row n holding the
\* whitespace-separated fields of line n, so a blank line gives a row without
\* fields; "a b\nc d\n" gives the rows ["a","b"] and ["c","d"], and
\* "a b\nc d\n\n" gives these two and a third row without fields.
C9_OneRowPerTerminatedLine ==
    /\ Tokenized /\ (text = EmptyStr \/ text[Len(text)] = "\n") =>
          /\ Len(rows) = Cardinality(NewlinePos(text))
          /\ \A n \in 1..Len(rows) : IsFieldsOf(rows[n], LineAt(text, n))
    /\ Tokenized /\ text = TwoLines =>
          rows = << <<<<"a">>, <<"b">>>>, <<<<"c">>, <<"d">>>> >>
    /\ Tokenized /\ text = TwoLinesAndBlank =>
          rows = << <<<<"a">>, <<"b">>>>, <<<<"c">>, <<"d">>>>, <<>> >>

\* C9 witness: "a b\nc d\n" has been tokenized into its two rows
C9_Witness == stage = "tokenized" /\ text = TwoLines /\ Len(rows) = 2

\* C10: captured output whose last line is not blank (no newline ends the
\* text) is not accepted silently: the query that maps the rows ends with the
\* field-count error, it does not succeed without the record of that line.
C10_UnterminatedLineRejected ==
    stage = "mapped" /\ ~Blank(LastLine(text)) => mapRes.kind = "err"

(***************************************************************************)
(* The row mappers and the queries that call them.                         *)
(***************************************************************************)
\* the rows a query hands to its row mapper: GetZpool skips the header row
MappedRows(op, out) == IF op = "GetZpool" /\ Len(out) >= 1 THEN Tail(out) ELSE out

\* the number of columns a query expects
ExpectedLen(op) == IF op = "GetZpool" THEN ZpoolPropListLen ELSE DsPropListLen

\* a dataset record and a pool record with every field set
SomeDataset == DatasetParseLine(NewDataset(Fs), Fields(DsRow(Snap))).ds
SomeZpool == ZpoolParseLine(NewZpool(Fs), Fields(PoolRow)).zp

ListingOf(d, out) ==
    /\ Len(out) >= 1
    /\ \A n \in 1..Len(out) : Len(out[n]) = DsPropListLen
    /\ out[1][1] = d
    /\ \A n \in 2..Len(out) : out[n][1] # d

\* the rows of out that open a group: the first row, and every row whose
\* leading field differs from that of the row before it
GroupStarts(out) == {n \in 1..Len(out) : n = 1 \/ out[n][1] # out[n - 1][1]}

\* C12: from the listing of d, Children returns one record per group of
\* consecutive rows with the same leading name, in order, for the descendants
\* only: d is never in the result, every descendant of the listing is, and a
\* listing with one descendant gives one entry named after it.
C12_ChildrenAreDescendants ==
    stage = "mapped" /\ mapOp = "Children" /\ ListingOf(Fs, rows) =>
       LET desc == Tail(rows)
           starts == GroupStarts(desc)
       IN  /\ mapRes.kind = "ok"
           /\ Len(mapRes.val) = Cardinality(starts)
           /\ \A k \in 1..Len(mapRes.val) :
                 mapRes.val[k].Name = desc[NthOf(starts, k)][1]
           /\ \A k \in 1..Len(mapRes.val) : mapRes.val[k].Name # Fs
           /\ \A n \in 1..Len(desc) :
                 \E k \in 1..Len(mapRes.val) : mapRes.val[k].Name = desc[n][1]
           /\ Len(desc) = 1 =>
                 Len(mapRes.val) = 1 /\ mapRes.val[1].Name = desc[1][1]

\* C12 witness: the listing of p with the two rows of p@s has given the one
\* record of p@s
C12_Witness ==
    /\ stage = "mapped" /\ mapOp = "Children" /\ Len(rows) = 3
    /\ rows[1][1] = Fs /\ rows[2][1] = Snap /\ rows[3][1] = Snap
    /\ mapRes.kind = "ok" /\ Len(mapRes.val) = 1 /\ mapRes.val[1].Name = Snap

(***************************************************************************)
(* The diff stream: ZfsH.Diff hands the rows of zfs diff -FH to            *)
(* parseInodeChanges.  A field is a sequence of characters; a path that    *)
(* has been unescaped is a sequence of bytes, numbers in 0 .. 255.         *)
(***************************************************************************)
MaxPathLen == 6      \* longest path field drawn freely, in characters
MaxDeltaLen == 5     \* longest reference-count field drawn freely

Removed == 1
Created == 2
Modified == 3
Renamed == 4

BlockDevice == 1
CharacterDevice == 2
Directory == 3
Door == 4
NamedPipe == 5
SymbolicLink == 6
EventPort == 7
Socket == 8
File == 9

\* the byte of a character: path[i] of a Go string
ByteOf(c) ==
    CASE c = "(" -> 40 [] c = ")" -> 41 [] c = "+" -> 43 [] c = "-" -> 45
      [] c = "/" -> 47 [] c = "0" -> 48 [] c = "1" -> 49 [] c = "2" -> 50
      [] c = "4" -> 52 [] c = "8" -> 56 [] c = "\\" -> 92 [] c = "a" -> 97
      [] c = "b" -> 98 [] c = "x" -> 120

\* the value of a decimal digit; -1 for any other character
DigitVal(c) ==
    CASE c = "0" -> 0 [] c = "1" -> 1 [] c = "2" -> 2 [] c = "3" -> 3
      [] c = "4" -> 4 [] c = "5" -> 5 [] c = "6" -> 6 [] c = "7" -> 7
      [] c = "8" -> 8 [] c = "9" -> 9 [] OTHER -> -1

\* the digits s denotes in the given base, most significant first
RECURSIVE NumberOf(_, _)
NumberOf(s, base) ==
    IF Len(s) = 0 THEN 0
    ELSE NumberOf(SubSeq(s, 1, Len(s) - 1), base) * base + DigitVal(s[Len(s)])

\* an octal parse that keeps the low eight bits of a value out of range
ParseUintWrap(code) ==
    IF Len(code) = 0 \/ \E i \in 1..Len(code) : DigitVal(code[i]) \notin 0..7
    THEN [err |-> TRUE, val |-> 0]
    ELSE [err |-> FALSE, val |-> NumberOf(code, 8) % 256]

\* strconv.ParseUint(octalCode, 8, 8): base-8 digits only, no sign, and a
\* value of at most 255
ParseUint(code) ==
    IF Len(code) = 0 \/ \E i \in 1..Len(code) : DigitVal(code[i]) \notin 0..7
    THEN [err |-> TRUE, val |-> 0]
    ELSE IF NumberOf(code, 8) > 255 THEN [err |-> TRUE, val |-> 255]
    ELSE [err |-> FALSE, val |-> NumberOf(code, 8)]

\* the loop of unescapeFilepath from position i (Go's i + 1), buf being the
\* bytes so far
RECURSIVE UnescapeLoop(_, _, _)
UnescapeLoop(path, i, buf) ==
    IF i > Len(path) THEN [err |-> NoErr, val |-> buf]
    ELSE IF path[i] = "\\"
         THEN IF Len(path) < i + 4 THEN [err |-> "short", val |-> EmptyStr]
              ELSE LET octalCode == SubSeq(path, i + 1, i + 4)
                       r == ParseUint(octalCode)
                   IN  IF r.err THEN [err |-> "octal", val |-> EmptyStr]
                       ELSE UnescapeLoop(path, i + 5, Append(buf, r.val))
         ELSE UnescapeLoop(path, i + 1, Append(buf, ByteOf(path[i])))

unescapeFilepath(path) == UnescapeLoop(path, 1, <<>>)

changeTypeMap(code) ==
    CASE code = <<"-">> -> Removed [] code = <<"+">> -> Created
      [] code = <<"M">> -> Modified [] code = <<"R">> -> Renamed
      [] OTHER -> 0

inodeTypeMap(code) ==
    CASE code = <<"B">> -> BlockDevice [] code = <<"C">> -> CharacterDevice
      [] code = <<"/">> -> Directory [] code = <<">">> -> Door
      [] code = <<"|">> -> NamedPipe [] code = <<"@">> -> SymbolicLink
      [] code = <<"P">> -> EventPort [] code = <<"=">> -> Socket
      [] code = <<"F">> -> File [] OTHER -> 0

\* referenceCountRegex matches field from position i: "(", a sign, one or
\* more digits up to position e - 1, and ")" at position e
RegexMatchAt(field, i, e) ==
    /\ i >= 1 /\ e <= Len(field) /\ e >= i + 3
    /\ field[i] = "("
    /\ field[i + 1] \in {"+", "-"}
    /\ \A k \in (i + 2)..(e - 1) : DigitVal(field[k]) >= 0
    /\ field[e] = ")"

\* strconv.Atoi of a sign and digits
Atoi(s) == IF s[1] = "-" THEN 0 - NumberOf(Tail(s), 10) ELSE NumberOf(Tail(s), 10)

\* parseReferenceCount: FindStringSubmatch takes the leftmost match anywhere
\* in the field
parseReferenceCount(field) ==
    LET ms == {m \in (1..Len(field)) \X (1..Len(field)) : RegexMatchAt(field, m[1], m[2])}
    IN  IF ms = {} THEN [err |-> "nomatch", val |-> 0]
        ELSE LET m == CHOOSE m \in ms : \A o \in ms : m[1] <= o[1]
             IN  [err |-> NoErr, val |-> Atoi(SubSeq(field, m[1] + 1, m[2] - 1))]

\* what parseInodeChange gives: kind is "ok" (change is the InodeChange), "err"
\* (err names the check that failed) or "panic" (an index out of range)
ChangeResult(kind, err, change) == [kind |-> kind, err |-> err, change |-> change]
ChangeFail(err) == ChangeResult("err", err, NilVal)
ChangePanic == ChangeResult("panic", NoErr, NilVal)

\* a count check that lets every change type but Renamed have 3 or 4 fields
FieldCountOkLoose(changeType, llen) ==
    IF changeType = Renamed THEN llen = 4 ELSE llen \in {3, 4}

\* a parser without the count check
FieldCountOkNone(changeType, llen) == TRUE

\* the first switch of parseInodeChange
FieldCountOk(changeType, llen) ==
    CASE changeType = Renamed -> llen = 4
      [] changeType = Modified -> llen = 4 \/ llen = 3
      [] OTHER -> llen = 3

\* a second switch that takes every fourth field as the new path
SecondFieldsAsPath(changeType, line) ==
    IF Len(line) < 4 THEN [kind |-> "ok", err |-> NoErr, newPath |-> EmptyStr, referenceCount |-> 0]
    ELSE LET r == unescapeFilepath(line[4])
         IN  IF r.err # NoErr
             THEN [kind |-> "err", err |-> "newpath", newPath |-> EmptyStr, referenceCount |-> 0]
             ELSE [kind |-> "ok", err |-> NoErr, newPath |-> r.val, referenceCount |-> 0]

\* the second switch of parseInodeChange: newPath and referenceCount
SecondFields(changeType, line) ==
    CASE changeType = Renamed ->
           IF Len(line) < 4
           THEN [kind |-> "panic", err |-> NoErr, newPath |-> EmptyStr, referenceCount |-> 0]
           ELSE LET r == unescapeFilepath(line[4])
                IN  IF r.err # NoErr
                    THEN [kind |-> "err", err |-> "newpath", newPath |-> EmptyStr,
                          referenceCount |-> 0]
                    ELSE [kind |-> "ok", err |-> NoErr, newPath |-> r.val,
                          referenceCount |-> 0]
      [] changeType = Modified /\ Len(line) = 4 ->
           LET r == parseReferenceCount(line[4])
           IN  IF r.err # NoErr
               THEN [kind |-> "err", err |-> "refcount", newPath |-> EmptyStr,
                     referenceCount |-> 0]
               ELSE [kind |-> "ok", err |-> NoErr, newPath |-> EmptyStr,
                     referenceCount |-> r.val]
      [] OTHER -> [kind |-> "ok", err |-> NoErr, newPath |-> EmptyStr, referenceCount |-> 0]

\* parseInodeChange (Go's line[k] is line[k+1] here); reading a field the row
\* does not have is the panic of the Go run time
parseInodeChange(line) ==
    LET llen == Len(line)
    IN  IF llen < 1 THEN ChangeFail("empty")
        ELSE LET changeType == changeTypeMap(line[1])
             IN  IF changeType = 0 THEN ChangeFail("changetype")
                 ELSE IF ~FieldCountOk(changeType, llen) THEN ChangeFail("fieldcount")
                 ELSE IF llen < 2 THEN ChangePanic
                 ELSE LET inodeType == inodeTypeMap(line[2])
                      IN  IF inodeType = 0 THEN ChangeFail("inodetype")
                          ELSE IF llen < 3 THEN ChangePanic
                          ELSE LET path == unescapeFilepath(line[3])
                                   snd == SecondFields(changeType, line)
                               IN  IF path.err # NoErr THEN ChangeFail("path")
                                   ELSE IF snd.kind = "panic" THEN ChangePanic
                                   ELSE IF snd.kind = "err" THEN ChangeFail(snd.err)
                                   ELSE ChangeResult("ok", NoErr,
                                          [Change |-> changeType,
                                           Type |-> inodeType,
                                           Path |-> path.val,
                                           NewPath |-> snd.newPath,
                                           ReferenceCountChange |-> snd.referenceCount])

\* the loop of parseInodeChanges from row i, changes being the results so far;
\* the val of a failure is the row (counted from 0) and the check that failed
RECURSIVE ChangesLoop(_, _, _)
ChangesLoop(lines, i, changes) ==
    IF i > Len(lines) THEN Outcome("ok", changes)
    ELSE LET c == parseInodeChange(lines[i])
         IN  IF c.kind = "panic" THEN Outcome("panic", NilVal)
             ELSE IF c.kind = "err" THEN Outcome("err", [line |-> i - 1, err |-> c.err])
             ELSE ChangesLoop(lines, i + 1, Append(changes, c.change))

parseInodeChanges(lines) == ChangesLoop(lines, 1, <<>>)

\* ZfsH.Diff after its z.zfs(...) has returned the rows
MapDiff == Mapped("Diff", parseInodeChanges(rows))

\* --- the rows of zfs diff the model draws ---
ChangeCodes == {<<"-">>, <<"+">>, <<"M">>, <<"R">>, <<"X">>}
InodeCodes == {<<"F">>, <<"/">>, <<"Z">>}
GoodPath == <<"/", "a">>
EscapedA == <<"\\", "0", "1", "4", "1">>
PathFields == {GoodPath, EscapedA, <<"\\", "0", "1">>}
PlusOne == <<"(", "+", "1", ")">>
MinusTwo == <<"(", "-", "2", ")">>
FourthFields == {<<"/", "b">>, <<"\\", "1">>, PlusOne, MinusTwo, <<"(", "1", ")">>}
FifthFields == {<<"x">>}

\* every row of up to five fields, field k drawn from the k-th set
FieldSets == <<ChangeCodes, InodeCodes, PathFields, FourthFields, FifthFields>>
GeneralRows ==
    UNION {{r \in [1..n -> UNION {FieldSets[k] : k \in 1..5}] :
              \A k \in 1..n : r[k] \in FieldSets[k]} : n \in 0..5}

PathAlphabet == {"a", "\\", "0", "1", "4"}
ExtraPaths ==
    {<<"\\", "0", "0", "8", "1">>, <<"\\", "0", "1", "4", "1", "\\", "0", "1", "0", "1">>,
     <<"a", "\\", "0", "1", "4", "1", "a">>, <<"\\", "0", "1", "4">>}
Paths == (StrsUpTo(PathAlphabet, MaxPathLen) \ {EmptyStr}) \cup ExtraPaths
PathRows == {<< <<"+">>, <<"F">>, path >> : path \in Paths}

DeltaAlphabet == {"(", ")", "+", "-", "1", "x"}
ExtraDeltas == {MinusTwo, <<"(", "+", "1", "2", ")">>, <<"(", "+", "1", ")", "(", "-", "2", ")">>}
Deltas == (StrsUpTo(DeltaAlphabet, MaxDeltaLen) \ {EmptyStr}) \cup ExtraDeltas
DeltaRows == {<< <<"M">>, <<"F">>, GoodPath, field >> : field \in Deltas}

\* one line of zfs diff -FH: the fields, tabs between them
DiffLine(row) == Join(row, Tab)

RECURSIVE DiffText(_)
DiffText(rs) == IF Len(rs) = 0 THEN <<>> ELSE DiffLine(rs[1]) \o <<"\n">> \o DiffText(Tail(rs))

GoodRow == << <<"M">>, <<"/">>, GoodPath >>
BadRow == << <<"+">>, <<"F">>, GoodPath, PlusOne >>

\* outputs of two lines
TwoRowDiffs == {<<GoodRow, GoodRow>>, <<GoodRow, BadRow>>, <<BadRow, GoodRow>>}

DiffTexts ==
    {DiffText(<<r>>) : r \in GeneralRows \cup PathRows \cup DeltaRows}
    \cup {DiffText(rs) : rs \in TwoRowDiffs}

InitDiff ==
    /\ Local = TRUE /\ client = Nil /\ conns = <<>> /\ dialCalls = 0
    /\ openSessions = 0 /\ calls = 0 /\ serial = TRUE /\ run = <<>>
    /\ text \in DiffTexts
    /\ rows = <<>>
    /\ stage = "input"
    /\ mapOp = "none"
    /\ mapRes = Outcome("none", NilVal)

NextDiff ==
    \/ TokenizeStep
    \/ MapDiff

\* zfs diff: the captured text, tokenized by Run and parsed by Diff
SpecDiff == InitDiff /\ [][NextDiff]_vars

(***************************************************************************)
(* The diff grammar, stated on the fields of a row.                        *)
(***************************************************************************)
\* Diff has parsed the output of zfs diff
DiffDone == stage = "mapped" /\ mapOp = "Diff"

\* Diff has parsed an output of one row
OneRowDone == DiffDone /\ Len(rows) = 1

KnownChangeCodes == {<<"-">>, <<"+">>, <<"M">>, <<"R">>}
KnownInodeCodes ==
    {<<"B">>, <<"C">>, <<"/">>, <<">">>, <<"|">>, <<"@">>, <<"P">>, <<"=">>, <<"F">>}

\* the number of fields n is the one the change code requires
RequiredCount(code, n) ==
    \/ code = <<"R">> /\ n = 4
    \/ code = <<"M">> /\ n \in {3, 4}
    \/ code \in {<<"-">>, <<"+">>} /\ n = 3

\* the backslash at position i of path opens an escape of k base-8 digits
\* that denote a byte
EscapeOk(path, i, k) ==
    /\ i + k <= Len(path)
    /\ \A j \in (i + 1)..(i + k) : DigitVal(path[j]) \in 0..7
    /\ NumberOf(SubSeq(path, i + 1, i + k), 8) <= 255

\* every backslash of path opens such an escape
WellFormedPath(path, k) ==
    \A i \in 1..Len(path) : path[i] = "\\" => EscapeOk(path, i, k)

\* the positions of path outside the digits of an escape
TokenStarts(path, k) ==
    {i \in 1..Len(path) :
        ~\E j \in 1..Len(path) : path[j] = "\\" /\ j < i /\ i <= j + k}

\* the bytes a well-formed path denotes: one per escape, one per other character
Decoded(path, k) ==
    [n \in 1..Cardinality(TokenStarts(path, k)) |->
        LET i == NthOf(TokenStarts(path, k), n)
        IN  IF path[i] = "\\" THEN NumberOf(SubSeq(path, i + 1, i + k), 8)
            ELSE ByteOf(path[i])]

\* field is "(", one sign, one or more decimal digits, ")" and nothing else
ExactDelta(field) ==
    /\ Len(field) >= 4
    /\ field[1] = "(" /\ field[2] \in {"+", "-"} /\ field[Len(field)] = ")"
    /\ \A k \in 3..(Len(field) - 1) : DigitVal(field[k]) >= 0

\* the signed integer between the parentheses of such a field
DeltaOf(field) ==
    (IF field[2] = "-" THEN -1 ELSE 1) * NumberOf(SubSeq(field, 3, Len(field) - 1), 10)

\* field holds "(", a sign, digits, ")" somewhere
HoldsDelta(field) ==
    \E i \in 1..Len(field), e \in 1..Len(field) :
       i + 3 <= e /\ ExactDelta(SubSeq(field, i, e))

\* C13: a row with code R fails unless it has 4 fields, one with code M
\* unless it has 3 or 4, one with code - or + unless it has 3; a row with the
\* required count, a known inode code, well-formed paths and a well-formed
\* delta is parsed.
C13_FieldCountPerChangeType ==
    OneRowDone /\ Len(rows[1]) >= 1 /\ rows[1][1] \in KnownChangeCodes =>
       LET line == rows[1]
       IN  /\ ~RequiredCount(line[1], Len(line)) =>
                 mapRes.kind = "err" /\ mapRes.val.err = "fieldcount"
           /\ /\ RequiredCount(line[1], Len(line))
              /\ line[2] \in KnownInodeCodes
              /\ WellFormedPath(line[3], 4)
              /\ line[1] = <<"R">> => WellFormedPath(line[4], 4)
              /\ line[1] = <<"M">> /\ Len(line) = 4 => ExactDelta(line[4])
              => mapRes.kind = "ok" /\ Len(mapRes.val) = 1

\* C13 witness: a Modified row of four fields has been parsed
C13_Witness ==
    /\ OneRowDone /\ rows[1] = << <<"M">>, <<"F">>, GoodPath, PlusOne >>
    /\ mapRes.kind = "ok" /\ mapRes.val[1].ReferenceCountChange = 1

\* C14: every InodeChange that is returned has one of the four change types
\* and one of the nine inode types; Renamed has a new path and no delta,
\* Modified has no new path, Removed and Created have neither.
C14_ChangeWellFormed ==
    DiffDone /\ mapRes.kind = "ok" =>
       /\ Len(mapRes.val) = Len(rows)
       /\ \A n \in 1..Len(mapRes.val) :
             LET c == mapRes.val[n]
             IN  /\ c.Change \in {Removed, Created, Modified, Renamed}
                 /\ c.Type \in BlockDevice..File
                 /\ c.Change = Renamed =>
                       c.NewPath # EmptyStr /\ c.ReferenceCountChange = 0
                 /\ c.Change = Modified => c.NewPath = EmptyStr
                 /\ c.Change \in {Removed, Created} =>
                       c.NewPath = EmptyStr /\ c.ReferenceCountChange = 0

\* C14 witness: a Renamed row has been parsed, with its new path
C14_Witness ==
    /\ OneRowDone /\ Len(rows[1]) = 4 /\ rows[1][1] = <<"R">> /\ mapRes.kind = "ok"
    /\ mapRes.val[1].Change = Renamed /\ mapRes.val[1].NewPath = <<47, 98>>

\* a Modified row of four fields whose fourth field alone decides the parse
DeltaRowDone ==
    /\ OneRowDone /\ Len(rows[1]) = 4 /\ rows[1][1] = <<"M">>
    /\ rows[1][2] \in KnownInodeCodes /\ WellFormedPath(rows[1][3], 4)

\* C15: the fourth field of a Modified row is accepted exactly when it is
\* "(", one sign, one or more digits, ")" with nothing before or after, and
\* ReferenceCountChange is then the signed integer between the parentheses;
\* any other fourth field makes the parse fail.
C15_DeltaExactForm ==
    DeltaRowDone =>
       /\ mapRes.kind = "ok" <=> ExactDelta(rows[1][4])
       /\ mapRes.kind = "ok" =>
             mapRes.val[1].ReferenceCountChange = DeltaOf(rows[1][4])
       /\ ~ExactDelta(rows[1][4]) =>
             mapRes.kind = "err" /\ mapRes.val.err = "refcount"

\* C15, the part that holds: a field of the exact form is accepted and gives
\* the signed integer; a field that holds the form nowhere is refused
C15_ExactFormAccepted ==
    DeltaRowDone =>
       /\ ExactDelta(rows[1][4]) =>
             /\ mapRes.kind = "ok"
             /\ mapRes.val[1].ReferenceCountChange = DeltaOf(rows[1][4])
       /\ ~HoldsDelta(rows[1][4]) =>
             mapRes.kind = "err" /\ mapRes.val.err = "refcount"

\* a Created row of three fields: the path alone decides the parse
PathRowDone ==
    /\ OneRowDone /\ Len(rows[1]) = 3
    /\ rows[1][1] = <<"+">> /\ rows[1][2] = <<"F">>

\* the path of such a row is decoded with escapes of k digits
DecodesEscapesOf(k) ==
    PathRowDone =>
       IF WellFormedPath(rows[1][3], k)
       THEN mapRes.kind = "ok" /\ mapRes.val[1].Path = Decoded(rows[1][3], k)
       ELSE mapRes.kind = "err" /\ mapRes.val.err = "path"

FirstFailure(line) ==
    IF Len(line) < 1 THEN "empty"
    ELSE IF line[1] \notin KnownChangeCodes THEN "changetype"
    ELSE IF ~RequiredCount(line[1], Len(line)) THEN "fieldcount"
    ELSE IF line[2] \notin KnownInodeCodes THEN "inodetype"
    ELSE IF ~WellFormedPath(line[3], 4) THEN "path"
    ELSE IF line[1] = <<"R">> /\ ~WellFormedPath(line[4], 4) THEN "newpath"
    ELSE IF line[1] = <<"M">> /\ Len(line) = 4 /\ ~HoldsDelta(line[4]) THEN "refcount"
    ELSE NoErr

\* the checks that fail on the row, each taken on its own where the row has
\* the field it reads
FailingChecks(line) ==
    (IF Len(line) < 1 THEN {"empty"} ELSE {})
    \cup (IF Len(line) >= 1 /\ line[1] \notin KnownChangeCodes THEN {"changetype"} ELSE {})
    \cup (IF Len(line) >= 1 /\ line[1] \in KnownChangeCodes
             /\ ~RequiredCount(line[1], Len(line)) THEN {"fieldcount"} ELSE {})
    \cup (IF Len(line) >= 2 /\ line[2] \notin KnownInodeCodes THEN {"inodetype"} ELSE {})
    \cup (IF Len(line) >= 3 /\ ~WellFormedPath(line[3], 4) THEN {"path"} ELSE {})

\* C19: the checks of parseInodeChange are applied in the fixed order and the
\* error is that of the first one that fails; no row of any length makes the
\* parser read a field the row does not have.
C19_ChecksInOrder ==
    OneRowDone =>
       /\ mapRes.kind # "panic"
       /\ mapRes.kind = "ok" <=> FirstFailure(rows[1]) = NoErr
       /\ mapRes.kind = "err" =>
             mapRes.val.err = FirstFailure(rows[1]) /\ mapRes.val.line = 0

\* C19 witness: a Renamed row of three fields with an unknown inode code and a
\* broken escape has been refused for its field count
C19_Witness ==
    /\ OneRowDone /\ Len(rows[1]) = 3 /\ rows[1][1] = <<"R">>
    /\ FailingChecks(rows[1]) = {"fieldcount", "inodetype", "path"}
    /\ mapRes = Outcome("err", [line |-> 0, err |-> "fieldcount"])

(***************************************************************************)
(* The argument lists of the API calls.                                    *)
(***************************************************************************)
\* the elements of tokens whose switch is on, in the order of tokens
RECURSIVE Pick(_, _)
Pick(tokens, on) ==
    IF Len(tokens) = 0 THEN <<>>
    ELSE (IF on[1] THEN <<tokens[1]>> ELSE <<>>) \o Pick(Tail(tokens), Tail(on))

\* the arguments between the subcommand and the dataset name
OptionTokens(arg) == SubSeq(arg, 2, Len(arg) - 1)

\* p has called op and the command line is built
Built(p, op) == run[p].op = op /\ run[p].pc # "done" /\ RunInvoked(p)

\* the options of Destroy are those of the set bits, in the order -r -R -d -f
DestroyOptionsFollowBits(p) ==
    Built(p, "Destroy") =>
       LET f == run[p].inp.flags
       IN  OptionTokens(run[p].arg) =
              Pick(<< <<"-r">>, <<"-R">>, <<"-d">>, <<"-f">> >>,
                   <<f \div 2 % 2 = 1, f \div 4 % 2 = 1, f \div 8 % 2 = 1,
                     f \div 16 % 2 = 1>>)

\* the four plain options of SendSnapshot, in the order -R -c -t -e
SendPlainOptions(f) ==
    Pick(<< <<"-R">>, <<"-c">>, <<"-t">>, <<"-e">> >>,
         <<f \div 4 % 2 = 1, f \div 16 % 2 = 1, f \div 64 % 2 = 1, f \div 32 % 2 = 1>>)

\* C17 as claimed: the option tokens of Destroy and SendSnapshot are exactly
\* those of the set bits, every bit switching its own token whatever the
\* other bits are (SendIncremental -i with the previous snapshot,
\* SendIntermediate -I with it), in the declared order.
C17_EveryBitOwnToken ==
    \A p \in Callers :
       /\ DestroyOptionsFollowBits(p)
       /\ Built(p, "SendSnapshot") =>
             LET f == run[p].inp.sendflags
                 ds1 == run[p].inp.ds1
             IN  OptionTokens(run[p].arg) =
                    SendPlainOptions(f)
                    \o (IF f \div 2 % 2 = 1 THEN << <<"-i">>, ds1 >> ELSE <<>>)
                    \o (IF f \div 8 % 2 = 1 THEN << <<"-I">>, ds1 >> ELSE <<>>)

\* C17 as amended: the options of Destroy are exactly -r, -R, -d, -f for the
\* bits DestroyRecursive, DestroyRecursiveClones, DestroyDeferDeletion,
\* DestroyForceUmount, each bit on its own, in this order; those of
\* SendSnapshot are -R, -c, -t, -e for SendRecursive, SendLz4, SendWithToken,
\* SendEmbeddedData, each bit on its own, in this order, followed, when
\* SendIncremental is set, by one option and the previous snapshot: -I if
\* SendIntermediate is set too, else -i.  SendIntermediate without
\* SendIncremental, SendDefault and DestroyDefault add no token.
C17_BitsToTokens ==
    \A p \in Callers :
       /\ DestroyOptionsFollowBits(p)
       /\ Built(p, "SendSnapshot") =>
             LET f == run[p].inp.sendflags
                 ds1 == run[p].inp.ds1
             IN  /\ OptionTokens(run[p].arg) =
                       SendPlainOptions(f)
                       \o (IF f \div 2 % 2 = 1
                           THEN << (IF f \div 8 % 2 = 1 THEN <<"-I">> ELSE <<"-i">>), ds1 >>
                           ELSE <<>>)
                 /\ run[p].arg[1] = <<"send">>
                 /\ run[p].arg[Len(run[p].arg)] = run[p].inp.ds0

\* C17 witness: SendSnapshot with SendRecursive, SendEmbeddedData,
\* SendIncremental and SendIntermediate has built send -R -e -I p@r p@s
C17_Witness ==
    /\ Built(1, "SendSnapshot")
    /\ run[1].inp.sendflags = SendRecursive + SendEmbeddedData + SendIncremental + SendIntermediate
    /\ run[1].arg = << <<"send">>, <<"-R">>, <<"-e">>, <<"-I">>, PrevSnap, Snap >>

\* the call of p has returned the error of the API function itself and has
\* executed nothing: no command line, no log event, no child process, no dial,
\* no session
NothingExecuted(p) ==
    /\ run[p].pc = "done" /\ run[p].ret = [rows |-> NilVal, err |-> RejectError]
    /\ ~RunInvoked(p) /\ run[p].arg = <<>> /\ run[p].events = <<>>
    /\ run[p].proc = NoProc /\ run[p].dialed = 0 /\ run[p].sess = "none"

\* p has called Clone or Rollback on a dataset that is no snapshot
NotASnapshot(p) ==
    run[p].op \in {"Clone", "Rollback"} /\ run[p].inp.d.Type # <<"snapshot">>

\* p has called SendSnapshot with a ds0 that is no snapshot name
NotASnapshotName(p) ==
    run[p].op = "SendSnapshot" /\ ~Contains(run[p].inp.ds0, "@")

EnvOverrides ==
    << << <<"LC_CTYPE">>, <<"C">> >>, << <<"LANG">>, <<"en_US.UTF-8">> >> >>

\* the child process or session of p is bound as the command spec says
BoundAsSpec(p) ==
    /\ run[p].proc.Stdin = (IF run[p].cmd.Stdin THEN "source" ELSE "none")
    /\ run[p].proc.Stdout = (IF run[p].cmd.Stdout THEN "sink" ELSE "buffer")
    /\ run[p].proc.Stderr = "buffer"
    /\ run[p].proc.Env = EnvOverrides

\* C20: a command is given the same bindings on a local and on a remote
\* target: standard input from the source when there is one, standard output
\* to the sink or else the capture buffer, the diagnostic stream to the
\* internal buffer, and the environment overrides LC_CTYPE=C and
\* LANG=en_US.UTF-8, for the local child as for the remote session.
C20_SameBindings ==
    \A p \in Callers : run[p].proc.mode # "none" => BoundAsSpec(p)

\* C20, the part that holds: the remote session is bound as the command spec
\* says, and the local child has the same three streams
C20_RemoteBindings ==
    \A p \in Callers :
       run[p].proc.mode # "none" =>
          /\ ~Local => BoundAsSpec(p)
          /\ Local =>
                /\ run[p].proc.Stdin = (IF run[p].cmd.Stdin THEN "source" ELSE "none")
                /\ run[p].proc.Stdout = (IF run[p].cmd.Stdout THEN "sink" ELSE "buffer")
                /\ run[p].proc.Stderr = "buffer"

\* C21, the state part: a Run entered on a remote target whose connection Close
\* had released calls dialSSH never, opens no session, starts nothing, and
\* returns an Error (the failure of NewSession) and no rows; the target still
\* holds that connection; a local target holds no connection at all.
C21_State ==
    /\ \A p \in Callers :
          RunInvoked(p) /\ run[p].connAtStart = "closed" =>
             /\ ~Local /\ client = run[p].clientAtStart /\ client # Nil
             /\ conns[client] = "closed"
             /\ run[p].dialed = 0 /\ ~run[p].sawNil
             /\ run[p].sess = "none" /\ run[p].proc = NoProc /\ ~run[p].waited
             /\ run[p].pc \in {"sc_check", "sc_session", "started", "done"}
             /\ run[p].pc \in {"started", "done"} => run[p].err = "session"
             /\ RunReturned(p) =>
                   /\ run[p].ret.rows = NilVal
                   /\ run[p].ret.err = RunError("session", run[p].cmd, run[p].arg,
                                                 EmptyStr)
    /\ Local => client = Nil /\ conns = <<>>

\* C21: with calls that do not overlap, Close leaves the target referring to
\* the connection it released: a step that releases a connection keeps
\* z.client, a released connection is never replaced, reopened or dialed
\* again, every Run entered after it fails at opening its session and returns
\* an Error (C21_State), and Close on a target without a connection (never
\* connected, or local) changes nothing.
C21_CloseKeepsReleasedConnection ==
    /\ []C21_State
    /\ [][(client # Nil /\ conns[client] = "open" /\ conns'[client] = "closed") =>
             client' = client]_vars
    /\ [][(client # Nil /\ conns[client] = "closed") =>
             client' = client /\ conns' = conns /\ dialCalls' = dialCalls]_vars
    /\ [][(Close /\ client = Nil) => UNCHANGED vars]_vars

\* C21 witness: on a remote target the second Run, entered after Close had
\* released the established connection, has returned an Error without dialing
C21_Witness ==
    /\ ~Local /\ client # Nil /\ conns[client] = "closed" /\ dialCalls = 1
    /\ RunReturned(1) /\ run[1].id = 2 /\ run[1].connAtStart = "closed"
    /\ run[1].dialed = 0 /\ run[1].ret.err.Err = "session"

====
